---------------------------- MODULE Spec2Model ----------------------------
(***************************************************************************)
(* Model of android/app/src/main/cpp/llm_bridge.cpp: the JNI bridge that   *)
(* drives a llama.cpp engine through llm_init, llm_infer and llm_dispose.  *)
(*                                                                         *)
(* C strings are sequences of one-character strings (the bytes before the  *)
(* terminating NUL); a const char* is a record [null, s].  Handles are     *)
(* positive integers and 0 is nullptr.  The llama.cpp runtime is an        *)
(* external collaborator: it is modelled by the small state the bridge     *)
(* can observe through llama.h (live handles, the session's token count    *)
(* and its score vector) and every call that can fail may fail.            *)
(***************************************************************************)
EXTENDS Integers, Sequences, FiniteSets, TLC

(***************************************************************************)
(* Bounds of the model.                                                    *)
(***************************************************************************)
\* number of caller threads
NThreads == 2
\* largest outBufSize a caller passes
MaxCap == 4
\* largest number of tokens a session is let to hold before llama_decode
\* reports failure (the KV cache is full)
MaxHist == 3
\* number of llama_backend_init calls after which no further llm_init is issued
MaxBackendInit == 2

(***************************************************************************)
(* Program constants.                                                      *)
(***************************************************************************)
\* static int g_threads = 4; and the default of cparams.n_threads
DefaultThreads == 4
\* the default of cparams.n_ctx
DefaultNCtx == 2048
\* the default of max_tokens
DefaultMaxTokens == 128
\* return values
RetOk == 0
RetModelLoadFailed == -1
RetContextFailed == -2
RetInvalidPath == -3
RetNotInitialized == -10
RetPromptEvalFailed == -20
RetBadOutBuf == -30

Min(a, b) == IF a < b THEN a ELSE b

(***************************************************************************)
(* const char* values.                                                     *)
(***************************************************************************)
NullPtr == [null |-> TRUE, s |-> <<>>]
Ptr(s) == [null |-> FALSE, s |-> s]

QUOTE == "\""
NUL == "NUL"

(***************************************************************************)
(* <cstring>/<cstdlib> as llm_bridge.cpp uses them.  Positions are 1-based *)
(* indices into the sequence; 0 is the null result.                        *)
(***************************************************************************)
\* does pat occur in s at position i
MatchAt(s, pat, i) ==
    /\ i + Len(pat) - 1 <= Len(s)
    /\ \A k \in 1..Len(pat) : s[i + k - 1] = pat[k]

\* strstr(s, pat): the position of the first occurrence of pat, or 0
strstr(s, pat) ==
    LET hits == {i \in 1..(Len(s) + 1) : MatchAt(s, pat, i)}
    IN  IF hits = {} THEN 0 ELSE CHOOSE i \in hits : \A j \in hits : i <= j

\* strchr(s + from - 1, c): the position of the first c at or after from, or 0
strchr(s, from, c) ==
    LET hits == {i \in from..Len(s) : s[i] = c}
    IN  IF hits = {} THEN 0 ELSE CHOOSE i \in hits : \A j \in hits : i <= j

IsSpace(c) == c \in {" ", "\t", "\n", "\r"}
IsDigit(c) == c \in {"0", "1", "2", "3", "4", "5", "6", "7", "8", "9"}
DigitVal(c) ==
    CASE c = "0" -> 0 [] c = "1" -> 1 [] c = "2" -> 2 [] c = "3" -> 3
      [] c = "4" -> 4 [] c = "5" -> 5 [] c = "6" -> 6 [] c = "7" -> 7
      [] c = "8" -> 8 [] c = "9" -> 9

RECURSIVE Pow10(_)
Pow10(n) == IF n <= 0 THEN 1 ELSE 10 * Pow10(n - 1)

\* the first position at or after i that holds no white space
RECURSIVE SkipSpace(_, _)
SkipSpace(s, i) ==
    IF i <= Len(s) /\ IsSpace(s[i]) THEN SkipSpace(s, i + 1) ELSE i

\* the first position at or after i that holds no digit
RECURSIVE SkipDigits(_, _)
SkipDigits(s, i) ==
    IF i <= Len(s) /\ IsDigit(s[i]) THEN SkipDigits(s, i + 1) ELSE i

\* the value of the digits s[i..j-1]
RECURSIVE DigitsVal(_, _, _)
DigitsVal(s, i, j) ==
    IF i >= j THEN 0 ELSE DigitsVal(s, i, j - 1) * 10 + DigitVal(s[j - 1])

\* A double that is a decimal fraction: m / 10^d.
Dbl(m, d) == [m |-> m, d |-> d]

\* atof(s + from - 1) on decimal literals: white space, an optional sign,
\* digits, an optional fraction, an optional exponent; 0.0 when no number
\* starts there.
atof(s, from) ==
    LET p0   == SkipSpace(s, from)
        neg  == p0 <= Len(s) /\ s[p0] = "-"
        p1   == IF p0 <= Len(s) /\ s[p0] \in {"+", "-"} THEN p0 + 1 ELSE p0
        p2   == SkipDigits(s, p1)
        dot  == p2 <= Len(s) /\ s[p2] = "."
        p3   == IF dot THEN SkipDigits(s, p2 + 1) ELSE p2
        nint == p2 - p1
        nfr  == IF dot THEN p3 - (p2 + 1) ELSE 0
        mant == DigitsVal(s, p1, p2) * Pow10(nfr)
                  + (IF dot THEN DigitsVal(s, p2 + 1, p3) ELSE 0)
        isE  == p3 <= Len(s) /\ s[p3] \in {"e", "E"}
        q0   == p3 + 1
        eneg == isE /\ q0 <= Len(s) /\ s[q0] = "-"
        q1   == IF isE /\ q0 <= Len(s) /\ s[q0] \in {"+", "-"} THEN q0 + 1 ELSE q0
        q2   == SkipDigits(s, q1)
        hasE == isE /\ q2 > q1
        ex   == IF hasE
                THEN (IF eneg THEN -1 ELSE 1) * DigitsVal(s, q1, q2)
                ELSE 0
        d    == nfr - ex
        sm   == IF neg THEN -mant ELSE mant
    IN  IF nint + nfr = 0 THEN Dbl(0, 0)
        ELSE IF d >= 0 THEN Dbl(sm, d)
        ELSE Dbl(sm * Pow10(-d), 0)

\* (int) x: truncation toward zero
DblToInt(x) ==
    IF x.m >= 0 THEN x.m \div Pow10(x.d) ELSE -((-x.m) \div Pow10(x.d))

\* (double) i
IntToDbl(i) == Dbl(i, 0)

\* faulty variant: the pattern lacks the opening quote, so the tail of a
\* longer key matches
KeyPattern_NoOpeningQuote(key) == key \o <<QUOTE>>

\* std::string pat = std::string("\"") + key + "\"";
KeyPattern(key) == <<QUOTE>> \o key \o <<QUOTE>>

\* static double jgetd(const char* json, const char* key, double defv)
jgetd(json, key, defv) ==
    IF json.null \/ key.null THEN defv
    ELSE LET pat == KeyPattern(key.s)
             p   == strstr(json.s, pat)
         IN  IF p = 0 THEN defv
             ELSE LET c == strchr(json.s, p, ":")
                  IN  IF c = 0 THEN defv ELSE atof(json.s, c + 1)

\* static int jgeti(const char* json, const char* key, int defi)
jgeti(json, key, defi) == DblToInt(jgetd(json, key, IntToDbl(defi)))

(***************************************************************************)
(* The vocabulary of the loaded model, as the bridge sees it through       *)
(* llama_vocab_n_tokens, llama_vocab_eos and llama_token_to_piece.  Token  *)
(* ids are 0-based; token t has the piece PieceTable[t + 1].               *)
(***************************************************************************)
PieceTable == << <<"a", "b">>, <<"c">>, <<>> >>

\* static inline int vocab_size()
vocab_size == Len(PieceTable)

\* static inline llama_token eos_token(): the last token of the vocabulary
eos_token == vocab_size - 1

\* llama_token_to_piece: the number of bytes written and the bytes
token_to_piece(tok) == PieceTable[tok + 1]

\* static inline void append_piece(llama_token tok, std::string& out)
append_piece(tok, out) ==
    LET n == Len(token_to_piece(tok))
    IN  IF n > 0 THEN out \o token_to_piece(tok) ELSE out

\* llama_tokenize(vocab, text, text_len, tokens, n_tokens_max, ...): the
\* tokens of the text (one per byte, no framing token) and the return
\* value, which is negative when n_tokens_max is too small.
TokenOf(c) == IF c = "h" THEN 0 ELSE 1
llama_tokenize_tokens(text) == [k \in 1..Len(text) |-> TokenOf(text[k])]
llama_tokenize(text, n_tokens_max) ==
    IF Len(text) > n_tokens_max THEN -Len(text) ELSE Len(text)

\* static inline std::vector<llama_token> tok_prompt(const std::string& s, ...)
tok_prompt(s) ==
    LET need0 == llama_tokenize(s, 0)
        need  == IF need0 < 0 THEN -need0 ELSE need0
    IN  IF need <= 0 THEN <<>>
        ELSE LET wrote0 == llama_tokenize(s, need)
                 wrote  == IF wrote0 < 0 THEN -wrote0 ELSE wrote0
                 out    == llama_tokenize_tokens(s)
             IN  IF wrote < need THEN SubSeq(out, 1, wrote) ELSE SubSeq(out, 1, need)

(***************************************************************************)
(* Score vectors: logits[t + 1] is the score of token t.                   *)
(***************************************************************************)
ScoreVals == {0, 1}
ScoreVectors == [1..vocab_size -> ScoreVals]

\* float best_v = -1e30f;
InitBestV == -1000

\* the greedy pick of llm_infer: for (t = 0; t < n_vocab; ++t)
\*   if (logits[t] > best_v) { best_v = logits[t]; best_id = t; }
RECURSIVE GreedyFrom(_, _, _, _, _)
GreedyFrom(logits, t, n_vocab, best_id, best_v) ==
    IF t >= n_vocab THEN best_id
    ELSE IF logits[t + 1] > best_v
         THEN GreedyFrom(logits, t + 1, n_vocab, t, logits[t + 1])
         ELSE GreedyFrom(logits, t + 1, n_vocab, best_id, best_v)

GreedyPick(logits, n_vocab) == GreedyFrom(logits, 0, n_vocab, 0, InitBestV)

(***************************************************************************)
(* State.                                                                  *)
(***************************************************************************)
VARIABLES
    g_mutex,         \* static std::mutex g_mutex: 0 when free, else its owner
    g_model,         \* static llama_model* g_model
    g_ctx,           \* static llama_context* g_ctx
    g_threads,       \* static int g_threads
    models,          \* llama.cpp: the model handles loaded and not freed
    sessions,        \* llama.cpp: live context handle -> its session state
    n_backend_init,  \* llama.cpp: number of llama_backend_init calls so far
    crashed,         \* the process has run into undefined behaviour and died
    pc,              \* thread -> where it is in the exported function it runs
    args,            \* thread -> the arguments of the call it runs
    loc,             \* thread -> the locals of llm_infer
    retval,          \* thread -> the value its call is returning
    mem,             \* thread -> the caller's memory that starts at outBuf
    did,             \* thread -> the llama.cpp calls its call has made, and
                     \*   the decode failures they reported
    last_init,       \* the status of the last llm_init that returned
    fn_call,         \* the helper call under study, with its arguments
    fn_result        \* what that call returned, once it has

vars == <<g_mutex, g_model, g_ctx, g_threads, models, sessions, n_backend_init,
          crashed, pc, args, loc, retval, mem, did, last_init,
          fn_call, fn_result>>

\* the variables the helper calls are studied with
fn_vars == <<fn_call, fn_result>>

Threads == 1..NThreads

\* last_init before any llm_init has returned: a value llm_init never returns
NoInitYet == RetOk + 1

\* the caller's memory from outBuf on: MaxCap bytes and one byte beyond the
\* largest buffer; "?" is a byte the call has not written
MemSize == MaxCap + 1
Untouched == [k \in 1..MemSize |-> "?"]

NoArgs == [op |-> "none", modelPath |-> NullPtr, n_ctx |-> 0, n_threads |-> 0,
           prompt |-> NullPtr, paramsJson |-> NullPtr,
           outBuf |-> FALSE, outBufSize |-> 0]

NoLocals == [max_tokens |-> 0, toks |-> <<>>, n_past |-> 0, result |-> <<>>,
             i |-> 0, tok |-> 0]

(***************************************************************************)
(* The arguments the callers pass.                                         *)
(***************************************************************************)
ModelPaths == {NullPtr, Ptr(<<>>), Ptr(<<"m">>)}
NCtxArgs == {0, 1}
NThreadsArgs == {0, 2}
Prompts == {NullPtr, Ptr(<<"h">>)}

KeyMaxTokens == Ptr(<<"m", "a", "x", "_", "t", "o", "k", "e", "n", "s">>)
CfgField(v) == <<"{", QUOTE>> \o KeyMaxTokens.s \o <<QUOTE, ":">> \o v \o <<"}">>
ParamsJsons ==
    { NullPtr,
      Ptr(<<"{", "}">>),
      Ptr(CfgField(<<"0">>)),
      Ptr(CfgField(<<"1">>)),
      Ptr(CfgField(<<QUOTE, "a", "b", "c", QUOTE>>)) }

OutBufs == {[outBuf |-> FALSE, outBufSize |-> MaxCap]}
             \cup {[outBuf |-> TRUE, outBufSize |-> c] : c \in 0..MaxCap}

\* no helper call is under study
NoCall ==
    [fn |-> "none", json |-> NullPtr, key |-> NullPtr, defv |-> Dbl(0, 0),
     logits |-> <<>>, emitted |-> {}]

NoResult == [done |-> FALSE, d |-> Dbl(0, 0), tok |-> 0]

Init ==
    /\ fn_call = NoCall
    /\ fn_result = NoResult
    /\ g_mutex = 0
    /\ g_model = 0
    /\ g_ctx = 0
    /\ g_threads = DefaultThreads
    /\ models = {}
    /\ sessions = <<>>
    /\ n_backend_init = 0
    /\ crashed = FALSE
    /\ pc = [t \in Threads |-> "idle"]
    /\ args = [t \in Threads |-> NoArgs]
    /\ loc = [t \in Threads |-> NoLocals]
    /\ retval = [t \in Threads |-> 0]
    /\ mem = [t \in Threads |-> Untouched]
    /\ did = [t \in Threads |-> {}]
    /\ last_init = NoInitYet

(***************************************************************************)
(* llama.cpp as seen through llama.h.                                      *)
(***************************************************************************)
\* the handle an allocation returns: the lowest one not in use
NewHandle(live) == CHOOSE h \in 1..(Cardinality(live) + 1) :
                       h \notin live /\ \A k \in 1..(h - 1) : k \in live

\* the session llama_init_from_model creates: no token, no scores yet
NewSession(n_ctx) == [n_ctx |-> n_ctx, n_tokens |-> 0, logits |-> <<>>]

\* can llama_decode take n more tokens into the session of ctx
DecodeFits(ctx, n) ==
    /\ ctx \in DOMAIN sessions
    /\ sessions[ctx].n_tokens + n <= Min(sessions[ctx].n_ctx, MaxHist)

\* the session of ctx after llama_decode took n tokens and left the scores v
Decoded(ctx, n, v) ==
    [sessions EXCEPT ![ctx] = [@ EXCEPT !.n_tokens = @ + n, !.logits = v]]

\* faulty variant: the released session stays live
Without_Keep(f, h) == f

\* the sessions without ctx
Without(f, h) == [k \in DOMAIN f \ {h} |-> f[k]]

Note(t, what) == did' = [did EXCEPT ![t] = @ \cup what]

Return(t, v) ==
    /\ retval' = [retval EXCEPT ![t] = v]
    /\ pc' = [pc EXCEPT ![t] = "ret"]

Goto(t, label) ==
    /\ pc' = [pc EXCEPT ![t] = label]
    /\ UNCHANGED retval

(***************************************************************************)
(* std::lock_guard<std::mutex> lock(g_mutex): the first statement of each  *)
(* exported function.  A caller enters the body when it gets the mutex;    *)
(* the guard's destructor releases it after the return value is set.       *)
(***************************************************************************)
\* faulty variant: the functions do not take the lock
MutexFree_NoLock == TRUE

MutexFree == g_mutex = 0

Enter(t, a, label) ==
    /\ ~crashed
    /\ pc[t] = "idle"
    /\ MutexFree
    /\ g_mutex' = t
    /\ pc' = [pc EXCEPT ![t] = label]
    /\ args' = [args EXCEPT ![t] = a]
    /\ loc' = [loc EXCEPT ![t] = NoLocals]
    /\ mem' = [mem EXCEPT ![t] = Untouched]
    /\ did' = [did EXCEPT ![t] = {}]
    /\ UNCHANGED <<g_model, g_ctx, g_threads, models, sessions, n_backend_init,
                   crashed, retval, last_init>>
    /\ UNCHANGED fn_vars

\* the function returns: the frame is gone and the mutex is released
Leave(t) ==
    /\ ~crashed
    /\ pc[t] = "ret"
    /\ g_mutex' = 0
    /\ pc' = [pc EXCEPT ![t] = "idle"]
    /\ last_init' = IF args[t].op = "init" THEN retval[t] ELSE last_init
    /\ args' = [args EXCEPT ![t] = NoArgs]
    /\ loc' = [loc EXCEPT ![t] = NoLocals]
    /\ mem' = [mem EXCEPT ![t] = Untouched]
    /\ did' = [did EXCEPT ![t] = {}]
    /\ retval' = [retval EXCEPT ![t] = 0]
    /\ UNCHANGED <<g_model, g_ctx, g_threads, models, sessions, n_backend_init,
                   crashed>>
    /\ UNCHANGED fn_vars

\* undefined behaviour that ends the process
Crash ==
    /\ crashed' = TRUE
    /\ UNCHANGED <<g_mutex, g_model, g_ctx, g_threads, models, sessions,
                   n_backend_init, pc, args, loc, retval, mem, did, last_init>>
    /\ UNCHANGED fn_vars

(***************************************************************************)
(* int llm_init(modelPath, n_ctx, n_gpu_layers, n_threads, seed)           *)
(***************************************************************************)
\* faulty variant: llm_init without its g_ctx check
AlreadyInitialized_Unchecked == FALSE

\* if (g_ctx)
AlreadyInitialized == g_ctx # 0

\* faulty variant: only the null path is refused
InvalidModelPath_NullOnly(modelPath) == modelPath.null

\* if (!modelPath || !*modelPath)
InvalidModelPath(modelPath) == modelPath.null \/ Len(modelPath.s) = 0

\* cparams.n_ctx = (n_ctx > 0) ? n_ctx : 2048
EffectiveNCtx(n_ctx) == IF n_ctx > 0 THEN n_ctx ELSE DefaultNCtx

\* cparams.n_threads = (n_threads > 0) ? n_threads : 4
EffectiveThreads(n_threads) == IF n_threads > 0 THEN n_threads ELSE DefaultThreads

llm_init(t) ==
    /\ n_backend_init < MaxBackendInit
    /\ \E path \in ModelPaths, nc \in NCtxArgs, nt \in NThreadsArgs :
          Enter(t, [NoArgs EXCEPT !.op = "init", !.modelPath = path,
                                  !.n_ctx = nc, !.n_threads = nt],
                "init_check")

\* lines 96-99: the two early returns, then llama_backend_init()
InitCheck(t) ==
    /\ ~crashed
    /\ pc[t] = "init_check"
    /\ IF AlreadyInitialized
       THEN /\ Return(t, RetOk)
            /\ UNCHANGED <<n_backend_init, did>>
       ELSE IF InvalidModelPath(args[t].modelPath)
       THEN /\ Return(t, RetInvalidPath)
            /\ UNCHANGED <<n_backend_init, did>>
       ELSE /\ n_backend_init' = n_backend_init + 1
            /\ Note(t, {"backend_init"})
            /\ Goto(t, "init_load")
    /\ UNCHANGED <<g_mutex, g_model, g_ctx, g_threads, models, sessions,
                   crashed, args, loc, mem, last_init>>
    /\ UNCHANGED fn_vars

\* lines 106-107: g_model = llama_model_load_from_file(...), which may fail
InitLoad(t) ==
    /\ ~crashed
    /\ pc[t] = "init_load"
    /\ \E ok \in BOOLEAN :
          LET h == IF ok THEN NewHandle(models) ELSE 0
          IN  /\ g_model' = h
              /\ models' = IF ok THEN models \cup {h} ELSE models
              /\ IF h = 0 THEN Return(t, RetModelLoadFailed)
                          ELSE Goto(t, "init_ctx")
    /\ Note(t, {"load"})
    /\ UNCHANGED <<g_mutex, g_ctx, g_threads, sessions, n_backend_init,
                   crashed, args, loc, mem, last_init>>
    /\ UNCHANGED fn_vars

\* faulty variant: the model loaded before the failure is kept
ContextFailed_Leak(t) ==
    /\ UNCHANGED <<models, g_model>>
    /\ Note(t, {"new_ctx"})
    /\ Return(t, RetContextFailed)

\* lines 116-120: llama_model_free(g_model); g_model = nullptr; return -2;
ContextFailed(t) ==
    /\ models' = models \ {g_model}
    /\ g_model' = 0
    /\ Note(t, {"new_ctx", "free_model"})
    /\ Return(t, RetContextFailed)

\* lines 109-123: g_threads, g_ctx = llama_init_from_model(...), which may
\* fail; on failure the model is freed again
InitContext(t) ==
    /\ ~crashed
    /\ pc[t] = "init_ctx"
    /\ g_threads' = EffectiveThreads(args[t].n_threads)
    /\ \E ok \in BOOLEAN :
          LET c == IF ok THEN NewHandle(DOMAIN sessions) ELSE 0
          IN  /\ g_ctx' = c
              /\ IF c # 0
                 THEN /\ sessions' = (c :> NewSession(EffectiveNCtx(args[t].n_ctx)))
                                        @@ sessions
                      /\ Note(t, {"new_ctx"})
                      /\ UNCHANGED <<g_model, models>>
                      /\ Return(t, RetOk)
                 ELSE /\ ContextFailed(t)
                      /\ UNCHANGED sessions
    /\ UNCHANGED <<g_mutex, n_backend_init, crashed, args, loc, mem, last_init>>
    /\ UNCHANGED fn_vars

(***************************************************************************)
(* void llm_dispose(void)                                                  *)
(***************************************************************************)
llm_dispose(t) == Enter(t, [NoArgs EXCEPT !.op = "dispose"], "dispose_ctx")

\* faulty variant: the session is never released
HasContext_Never == FALSE

\* line 182: if (g_ctx)
HasContext == g_ctx # 0

\* line 182: if (g_ctx) { llama_free(g_ctx); g_ctx = nullptr; }
DisposeContext(t) ==
    /\ ~crashed
    /\ pc[t] = "dispose_ctx"
    /\ IF HasContext
       THEN IF g_ctx \in DOMAIN sessions
            THEN /\ sessions' = Without(sessions, g_ctx)
                 /\ g_ctx' = 0
                 /\ Note(t, {"free_ctx"})
                 /\ Goto(t, "dispose_model")
                 /\ UNCHANGED crashed
            ELSE /\ crashed' = TRUE
                 /\ UNCHANGED <<sessions, g_ctx, did, pc, retval>>
       ELSE /\ Goto(t, "dispose_model")
            /\ UNCHANGED <<sessions, g_ctx, did, crashed>>
    /\ UNCHANGED <<g_mutex, g_model, g_threads, models, n_backend_init,
                   args, loc, mem, last_init>>
    /\ UNCHANGED fn_vars

\* lines 183-185: if (g_model) { llama_model_free(g_model); g_model = nullptr; }
\* llama_backend_free();
DisposeModel(t) ==
    /\ ~crashed
    /\ pc[t] = "dispose_model"
    /\ IF g_model # 0
       THEN IF g_model \in models
            THEN /\ models' = models \ {g_model}
                 /\ g_model' = 0
                 /\ Note(t, {"free_model", "backend_free"})
                 /\ Return(t, 0)
                 /\ UNCHANGED crashed
            ELSE /\ crashed' = TRUE
                 /\ UNCHANGED <<models, g_model, did, pc, retval>>
       ELSE /\ Note(t, {"backend_free"})
            /\ Return(t, 0)
            /\ UNCHANGED <<models, g_model, crashed>>
    /\ UNCHANGED <<g_mutex, g_ctx, g_threads, sessions, n_backend_init,
                   args, loc, mem, last_init>>
    /\ UNCHANGED fn_vars

(***************************************************************************)
(* int llm_infer(prompt, paramsJson, outBuf, outBufSize)                   *)
(***************************************************************************)
\* faulty variant: llm_infer without its g_ctx check
NotInitialized_Unchecked == FALSE

\* if (!g_ctx)
NotInitialized == g_ctx = 0

\* faulty variant: a capacity of 1 is let through
BadOutBuf_OffByOne(outBuf, outBufSize) == ~outBuf \/ outBufSize <= 0

\* if (!outBuf || outBufSize <= 1)
BadOutBuf(outBuf, outBufSize) == ~outBuf \/ outBufSize <= 1

\* paramsJson ? jgeti(paramsJson, "max_tokens", 128) : 128
MaxTokensOf(paramsJson) ==
    IF ~paramsJson.null THEN jgeti(paramsJson, KeyMaxTokens, DefaultMaxTokens)
    ELSE DefaultMaxTokens

\* std::string p = prompt ? prompt : "";
PromptText(prompt) == IF ~prompt.null THEN prompt.s ELSE <<>>

\* faulty variant: the loop runs once more
LoopContinues_OffByOne(i, max_tokens) == i <= max_tokens

\* for (int i = 0; i < max_tokens; ++i)
LoopContinues(i, max_tokens) == i < max_tokens

\* faulty variant: the loop does not stop on a full output
OutputFull_Never(result, outBufSize) == FALSE

\* if ((int)result.size() >= outBufSize - 1) break;
OutputFull(result, outBufSize) == Len(result) >= outBufSize - 1

\* faulty variant: the copy is not bounded by the capacity
CopyLen_Unbounded(size, outBufSize) == size

\* const int n = std::min((int)result.size(), outBufSize - 1);
CopyLen(size, outBufSize) == Min(size, outBufSize - 1)

\* memcpy(outBuf, result.data(), n); outBuf[n] = '\0';
WriteOut(m, result, n) ==
    [k \in 1..MemSize |-> IF k <= n THEN result[k]
                          ELSE IF k = n + 1 THEN NUL
                          ELSE m[k]]

llm_infer(t) ==
    \E p \in Prompts, j \in ParamsJsons, o \in OutBufs :
        Enter(t, [NoArgs EXCEPT !.op = "infer", !.prompt = p, !.paramsJson = j,
                                !.outBuf = o.outBuf, !.outBufSize = o.outBufSize],
              "infer_check")

\* lines 129-136: the two early returns, max_tokens, and tok_prompt
InferCheck(t) ==
    /\ ~crashed
    /\ pc[t] = "infer_check"
    /\ IF NotInitialized
       THEN /\ Return(t, RetNotInitialized)
            /\ UNCHANGED <<loc, did>>
       ELSE IF BadOutBuf(args[t].outBuf, args[t].outBufSize)
       THEN /\ Return(t, RetBadOutBuf)
            /\ UNCHANGED <<loc, did>>
       ELSE LET toks == tok_prompt(PromptText(args[t].prompt))
            IN  /\ loc' = [loc EXCEPT ![t] =
                              [@ EXCEPT !.max_tokens = MaxTokensOf(args[t].paramsJson),
                                        !.toks = toks]]
                /\ Note(t, {"tokenize"})
                /\ Goto(t, IF toks # <<>> THEN "infer_prompt" ELSE "infer_loop")
    /\ UNCHANGED <<g_mutex, g_model, g_ctx, g_threads, models, sessions,
                   n_backend_init, crashed, args, mem, last_init>>
    /\ UNCHANGED fn_vars

\* faulty variant: a failed prompt decode is handled like a failed step decode
PromptDecodeFailed_Break(t) ==
    /\ Note(t, {"decode", "prompt_decode_failed"})
    /\ Goto(t, "infer_write")

\* lines 140-143: the prompt decode failed: return -20;
PromptDecodeFailed(t) ==
    /\ Note(t, {"decode", "prompt_decode_failed"})
    /\ Return(t, RetPromptEvalFailed)

\* lines 139-144: decode_tokens(toks.data(), toks.size(), n_past); llama_decode
\* may fail, and fails when the session cannot hold the tokens
InferPrompt(t) ==
    /\ ~crashed
    /\ pc[t] = "infer_prompt"
    /\ \E ok \in BOOLEAN :
          IF ok /\ DecodeFits(g_ctx, Len(loc[t].toks))
          THEN \E v \in ScoreVectors :
                  /\ sessions' = Decoded(g_ctx, Len(loc[t].toks), v)
                  /\ loc' = [loc EXCEPT ![t].n_past = @ + Len(loc[t].toks)]
                  /\ Note(t, {"decode"})
                  /\ Goto(t, "infer_loop")
          ELSE /\ PromptDecodeFailed(t)
               /\ UNCHANGED <<sessions, loc>>
    /\ UNCHANGED <<g_mutex, g_model, g_ctx, g_threads, models, n_backend_init,
                   crashed, args, mem, last_init>>
    /\ UNCHANGED fn_vars

\* lines 153-165 of one iteration, given the scores llama_get_logits gave
Sample(t, logits) ==
    LET tok == GreedyPick(logits, vocab_size)
    IN  IF tok = eos_token \/ tok = -1
        THEN /\ loc' = [loc EXCEPT ![t].tok = tok]
             /\ Note(t, {"logits"})
             /\ Goto(t, "infer_write")
        ELSE LET result == append_piece(tok, loc[t].result)
             IN  /\ loc' = [loc EXCEPT ![t] = [@ EXCEPT !.tok = tok, !.result = result]]
                 /\ Note(t, {"logits", "piece"})
                 /\ Goto(t, IF OutputFull(result, args[t].outBufSize)
                            THEN "infer_write" ELSE "infer_step")

\* lines 149-165: the loop test and one iteration up to the step decode
InferLoop(t) ==
    /\ ~crashed
    /\ pc[t] = "infer_loop"
    /\ IF LoopContinues(loc[t].i, loc[t].max_tokens)
       THEN IF g_ctx \in DOMAIN sessions /\ sessions[g_ctx].logits # <<>>
            THEN Sample(t, sessions[g_ctx].logits)
            ELSE \E v \in ScoreVectors : Sample(t, v)
       ELSE /\ Goto(t, "infer_write")
            /\ UNCHANGED <<loc, did>>
    /\ UNCHANGED <<g_mutex, g_model, g_ctx, g_threads, models, sessions,
                   n_backend_init, crashed, args, mem, last_init>>
    /\ UNCHANGED fn_vars

\* line 150 when the session has no scores: llama_get_logits returns a null
\* or unwritten buffer and reading it may also end the process
InferLoopCrash(t) ==
    /\ ~crashed
    /\ pc[t] = "infer_loop"
    /\ LoopContinues(loc[t].i, loc[t].max_tokens)
    /\ ~(g_ctx \in DOMAIN sessions /\ sessions[g_ctx].logits # <<>>)
    /\ Crash

\* faulty variant: a failed step decode is reported like a failed prompt decode
StepDecodeFailed_Propagate(t) ==
    /\ Note(t, {"decode", "step_decode_failed"})
    /\ Return(t, RetPromptEvalFailed)

\* lines 167-170: the step decode failed: break;
StepDecodeFailed(t) ==
    /\ Note(t, {"decode", "step_decode_failed"})
    /\ Goto(t, "infer_write")

\* lines 167-170: decode_tokens(&tok, 1, n_past); a failure ends the loop
InferStep(t) ==
    /\ ~crashed
    /\ pc[t] = "infer_step"
    /\ \E ok \in BOOLEAN :
          IF ok /\ DecodeFits(g_ctx, 1)
          THEN \E v \in ScoreVectors :
                  /\ sessions' = Decoded(g_ctx, 1, v)
                  /\ loc' = [loc EXCEPT ![t] = [@ EXCEPT !.n_past = @ + 1, !.i = @ + 1]]
                  /\ Note(t, {"decode"})
                  /\ Goto(t, "infer_loop")
          ELSE /\ StepDecodeFailed(t)
               /\ UNCHANGED <<sessions, loc>>
    /\ UNCHANGED <<g_mutex, g_model, g_ctx, g_threads, models, n_backend_init,
                   crashed, args, mem, last_init>>
    /\ UNCHANGED fn_vars

\* lines 173-176: the bounded copy, the terminator, return 0
InferWrite(t) ==
    /\ ~crashed
    /\ pc[t] = "infer_write"
    /\ mem' = [mem EXCEPT ![t] =
                  WriteOut(@, loc[t].result,
                           CopyLen(Len(loc[t].result), args[t].outBufSize))]
    /\ Note(t, {"write"})
    /\ Return(t, RetOk)
    /\ UNCHANGED <<g_mutex, g_model, g_ctx, g_threads, models, sessions,
                   n_backend_init, crashed, args, loc, last_init>>
    /\ UNCHANGED fn_vars

(***************************************************************************)
(* The specification: any number of calls from the caller threads.         *)
(***************************************************************************)
Next ==
    \E t \in Threads :
        \/ llm_init(t)
        \/ InitCheck(t)
        \/ InitLoad(t)
        \/ InitContext(t)
        \/ llm_infer(t)
        \/ InferCheck(t)
        \/ InferPrompt(t)
        \/ InferLoop(t)
        \/ InferLoopCrash(t)
        \/ InferStep(t)
        \/ InferWrite(t)
        \/ llm_dispose(t)
        \/ DisposeContext(t)
        \/ DisposeModel(t)
        \/ Leave(t)

Spec == Init /\ [][Next]_vars

(***************************************************************************)
(* Vocabulary of the properties.                                           *)
(***************************************************************************)
\* thread t has set the return value of its call to op and not yet left
AtReturn(t, op) == pc[t] = "ret" /\ args[t].op = op

\* thread t is inside a call to op
Inside(t, op) == pc[t] # "idle" /\ args[t].op = op

\* an Engine exists
EnginePresent == g_ctx # 0

\* the bytes of m before its first terminator
TextLen(m) ==
    LET nuls == {k \in 1..MemSize : m[k] = NUL}
    IN  IF nuls = {} THEN MemSize
        ELSE (CHOOSE k \in nuls : \A j \in nuls : k <= j) - 1

\* m holds text followed by a terminator and nothing else has been written
HoldsText(m, text) ==
    /\ \A k \in 1..Len(text) : m[k] = text[k]
    /\ m[Len(text) + 1] = NUL
    /\ \A k \in (Len(text) + 2)..MemSize : m[k] = "?"

(***************************************************************************)
(* C1.  Whenever llm_infer returns 0, the capacity C is at least 2, the    *)
(* text in the output buffer has at most C-1 bytes, its terminator is at   *)
(* an index <= C-1, and no byte at an index >= C has been written.         *)
(***************************************************************************)
C1_BoundedOutput ==
    \A t \in Threads :
        AtReturn(t, "infer") /\ retval[t] = RetOk =>
            LET C == args[t].outBufSize
            IN  /\ C >= 2
                /\ TextLen(mem[t]) <= C - 1
                /\ mem[t][TextLen(mem[t]) + 1] = NUL
                /\ \A k \in 1..TextLen(mem[t]) : mem[t][k] # "?"
                /\ \A k \in (C + 1)..MemSize : mem[t][k] = "?"

\* llm_infer returns 0 with generated text longer than C-1 bytes: truncated
C1_Witness ==
    \E t \in Threads :
        /\ AtReturn(t, "infer") /\ retval[t] = RetOk
        /\ Len(loc[t].result) > args[t].outBufSize - 1
        /\ TextLen(mem[t]) = args[t].outBufSize - 1

(***************************************************************************)
(* C2.  At most one thread is inside the body of llm_init, llm_infer or    *)
(* llm_dispose at any instant, and it is the owner of g_mutex; so no       *)
(* llm_dispose frees the model or the context while an llm_infer is        *)
(* tokenizing, decoding or reading scores, and no llm_init installs an     *)
(* Engine while another llm_init runs.                                     *)
(***************************************************************************)
C2_MutualExclusion ==
    /\ \A t1, t2 \in Threads :
          pc[t1] # "idle" /\ pc[t2] # "idle" => t1 = t2
    /\ \A t \in Threads : pc[t] # "idle" => g_mutex = t

\* an llm_infer is between two decodes on a live Engine while another
\* thread, which could call llm_dispose, is kept out
C2_Witness ==
    \E t1, t2 \in Threads :
        /\ t1 # t2
        /\ pc[t1] = "infer_step" /\ EnginePresent
        /\ pc[t2] = "idle"
        /\ last_init = RetOk

(***************************************************************************)
(* C3.  While no Engine exists, an llm_infer call with any arguments does  *)
(* no engine work (no tokenize, decode, score read) and no write to the    *)
(* output buffer, and the value it returns is -10.                         *)
(***************************************************************************)
C3_NotInitialized ==
    \A t \in Threads :
        Inside(t, "infer") /\ ~EnginePresent =>
            /\ pc[t] \in {"infer_check", "ret"}
            /\ did[t] = {}
            /\ mem[t] = Untouched
            /\ pc[t] = "ret" => retval[t] = RetNotInitialized

\* llm_infer returns -10 after an llm_init succeeded and llm_dispose ran,
\* with arguments that are otherwise valid
C3_Witness ==
    \E t \in Threads :
        /\ AtReturn(t, "infer") /\ retval[t] = RetNotInitialized
        /\ ~EnginePresent /\ last_init = RetOk
        /\ ~BadOutBuf(args[t].outBuf, args[t].outBufSize)

\* the output target of t's llm_infer is null or has capacity <= 1
TargetInvalid(t) == ~args[t].outBuf \/ args[t].outBufSize <= 1

\* the model path of t's llm_init is null or empty
PathEmpty(t) == args[t].modelPath.null \/ args[t].modelPath.s = <<>>

InitFailures == {RetModelLoadFailed, RetContextFailed, RetInvalidPath}

(***************************************************************************)
(* C4 as stated.  llm_infer with a null output buffer or a capacity <= 1   *)
(* returns -30 and does not tokenize, in every state of the lifecycle.     *)
(***************************************************************************)
C4_AsStated ==
    \A t \in Threads :
        AtReturn(t, "infer") /\ TargetInvalid(t) =>
            retval[t] = RetBadOutBuf /\ "tokenize" \notin did[t]

(***************************************************************************)
(* C4 amended.  llm_infer with a null output buffer or a capacity <= 1     *)
(* does no tokenization, no other engine work and no write; it returns     *)
(* -30 when an Engine exists and -10 when none exists.                     *)
(***************************************************************************)
C4_InvalidTarget ==
    \A t \in Threads :
        Inside(t, "infer") /\ TargetInvalid(t) =>
            /\ pc[t] \in {"infer_check", "ret"}
            /\ did[t] = {}
            /\ mem[t] = Untouched
            /\ pc[t] = "ret" =>
                  retval[t] = IF EnginePresent THEN RetBadOutBuf
                              ELSE RetNotInitialized

\* llm_infer returns -30 for a buffer of capacity 1 on a live Engine
C4_Witness ==
    \E t \in Threads :
        /\ AtReturn(t, "infer") /\ retval[t] = RetBadOutBuf
        /\ args[t].outBuf /\ args[t].outBufSize = 1
        /\ EnginePresent

(***************************************************************************)
(* C5 as stated.  llm_init with a null or empty model path returns -3,     *)
(* whatever the lifecycle state.                                           *)
(***************************************************************************)
C5_AsStated ==
    \A t \in Threads :
        AtReturn(t, "init") /\ PathEmpty(t) => retval[t] = RetInvalidPath

(***************************************************************************)
(* C5 amended.  llm_init with a null or empty model path returns -3 when   *)
(* no Engine exists and 0 when one exists; in both cases it loads nothing  *)
(* and does not initialize the backend.                                    *)
(***************************************************************************)
C5_InvalidPath ==
    \A t \in Threads :
        Inside(t, "init") /\ PathEmpty(t) =>
            /\ pc[t] \in {"init_check", "ret"}
            /\ did[t] = {}
            /\ pc[t] = "ret" =>
                  retval[t] = IF EnginePresent THEN RetOk ELSE RetInvalidPath

\* llm_init returns -3 for an empty (non-null) path
C5_Witness ==
    \E t \in Threads :
        /\ AtReturn(t, "init") /\ retval[t] = RetInvalidPath
        /\ ~args[t].modelPath.null /\ args[t].modelPath.s = <<>>

(***************************************************************************)
(* C6.  The step llm_init takes from its first test when an Engine exists  *)
(* sets the return value 0 and does nothing else: no backend               *)
(* initialization, no load, no context creation; g_model, g_ctx and        *)
(* g_threads keep their values and exactly one model and one context are   *)
(* live afterwards.                                                        *)
(***************************************************************************)
C6_InitIdempotent ==
    [][ \A t \in Threads :
           (pc[t] = "init_check" /\ EnginePresent /\ pc'[t] # "init_check") =>
               /\ pc'[t] = "ret"
               /\ retval'[t] = RetOk
               /\ did'[t] = {}
               /\ UNCHANGED <<g_model, g_ctx, g_threads, models, sessions,
                              n_backend_init>>
               /\ models' = {g_model'}
               /\ DOMAIN sessions' = {g_ctx'} ]_vars

\* a second llm_init, asking for another thread count and an empty path,
\* returns 0 on a live Engine having done nothing
C6_Witness ==
    \E t \in Threads :
        /\ AtReturn(t, "init") /\ retval[t] = RetOk /\ did[t] = {}
        /\ EnginePresent /\ last_init = RetOk
        /\ EffectiveThreads(args[t].n_threads) # g_threads
        /\ PathEmpty(t)

(***************************************************************************)
(* C7.  Whenever llm_init returns a nonzero status, the status is -1, -2   *)
(* or -3 and nothing is installed or left loaded: g_ctx and g_model are    *)
(* null and no model or context is live.  An llm_init that follows a       *)
(* failed one is not short-circuited: with a non-empty path it loads the   *)
(* model, and when the load and the context creation succeed it returns 0  *)
(* with g_model and g_ctx holding live handles.                            *)
(***************************************************************************)
C7_FailedInitRetryable ==
    \A t \in Threads :
        AtReturn(t, "init") =>
            /\ retval[t] # RetOk =>
                  /\ retval[t] \in InitFailures
                  /\ g_ctx = 0 /\ g_model = 0
                  /\ models = {} /\ DOMAIN sessions = {}
            /\ last_init \in InitFailures /\ ~PathEmpty(t) =>
                  "load" \in did[t]
            /\ (/\ last_init \in InitFailures
                /\ "new_ctx" \in did[t]
                /\ "free_model" \notin did[t]) =>
                  /\ retval[t] = RetOk
                  /\ g_model \in models
                  /\ g_ctx \in DOMAIN sessions

\* an llm_init succeeds right after one that failed to create the context
C7_Witness ==
    \E t \in Threads :
        /\ AtReturn(t, "init") /\ retval[t] = RetOk
        /\ "new_ctx" \in did[t]
        /\ last_init = RetContextFailed

\* the first n bytes of a text
Truncated(text, n) == SubSeq(text, 1, Min(Len(text), n))

\* the last n bytes of a text
Suffix(text, n) == SubSeq(text, Len(text) - n + 1, Len(text))

(***************************************************************************)
(* C8.  Once the decode of the prompt tokens has failed, llm_infer is at   *)
(* its return with the value -20: no score has been read, no token         *)
(* picked, no piece appended, no step decode made, and no byte of the      *)
(* output buffer written.                                                  *)
(***************************************************************************)
C8_PromptEvalFailure ==
    \A t \in Threads :
        Inside(t, "infer") /\ "prompt_decode_failed" \in did[t] =>
            /\ pc[t] = "ret"
            /\ retval[t] = RetPromptEvalFailed
            /\ did[t] = {"tokenize", "decode", "prompt_decode_failed"}
            /\ loc[t].result = <<>> /\ loc[t].i = 0 /\ loc[t].n_past = 0
            /\ mem[t] = Untouched

\* the prompt decode fails in a call that asked for tokens and had room
C8_Witness ==
    \E t \in Threads :
        /\ AtReturn(t, "infer") /\ "prompt_decode_failed" \in did[t]
        /\ loc[t].max_tokens > 0
        /\ args[t].outBufSize = MaxCap

(***************************************************************************)
(* C9.  Once the decode of a picked token has failed (the prompt decode    *)
(* having succeeded or the prompt being empty), llm_infer leaves the loop  *)
(* and returns 0, never a nonzero status; the accumulated text ends with   *)
(* the piece of the token whose decode failed, and the output buffer       *)
(* holds that text cut to C-1 bytes and terminated.                        *)
(***************************************************************************)
C9_StepEvalFailure ==
    \A t \in Threads :
        Inside(t, "infer") /\ "step_decode_failed" \in did[t] =>
            /\ pc[t] \in {"infer_write", "ret"}
            /\ "prompt_decode_failed" \notin did[t]
            /\ Len(token_to_piece(loc[t].tok)) > 0
            /\ Len(loc[t].result) >= Len(token_to_piece(loc[t].tok))
            /\ Suffix(loc[t].result, Len(token_to_piece(loc[t].tok)))
                  = token_to_piece(loc[t].tok)
            /\ pc[t] = "ret" =>
                  /\ retval[t] = RetOk
                  /\ HoldsText(mem[t],
                               Truncated(loc[t].result, args[t].outBufSize - 1))

\* the decode of the second picked token fails after a prompt decode and a
\* step decode that succeeded; both pieces are returned with status 0
C9_Witness ==
    \E t \in Threads :
        /\ AtReturn(t, "infer") /\ "step_decode_failed" \in did[t]
        /\ retval[t] = RetOk
        /\ loc[t].i = 1
        /\ loc[t].toks # <<>>
        /\ TextLen(mem[t]) = 2

(***************************************************************************)
(* C10 as stated.  With an Engine and a capacity >= 2, llm_infer with      *)
(* max_tokens = 0 returns 0 with the terminator at index 0, for every      *)
(* prompt.                                                                 *)
(***************************************************************************)
C10_AsStated ==
    \A t \in Threads :
        (/\ AtReturn(t, "infer") /\ EnginePresent /\ ~TargetInvalid(t)
         /\ MaxTokensOf(args[t].paramsJson) = 0) =>
            retval[t] = RetOk /\ mem[t][1] = NUL

(***************************************************************************)
(* C10 amended.  With an Engine and a capacity >= 2, llm_infer with        *)
(* max_tokens = 0 reads no score and appends no piece; it returns 0 with   *)
(* the terminator at index 0 and nothing else written, unless the decode   *)
(* of the prompt tokens fails, in which case it returns -20 and writes     *)
(* nothing.                                                                *)
(***************************************************************************)
C10_ZeroMaxTokens ==
    \A t \in Threads :
        (/\ AtReturn(t, "infer") /\ EnginePresent /\ ~TargetInvalid(t)
         /\ MaxTokensOf(args[t].paramsJson) = 0) =>
            /\ "logits" \notin did[t] /\ "piece" \notin did[t]
            /\ IF "prompt_decode_failed" \in did[t]
               THEN retval[t] = RetPromptEvalFailed /\ mem[t] = Untouched
               ELSE retval[t] = RetOk /\ HoldsText(mem[t], <<>>)

\* max_tokens = 0 with a prompt that has tokens: status 0, empty output
C10_Witness ==
    \E t \in Threads :
        /\ AtReturn(t, "infer") /\ EnginePresent /\ ~TargetInvalid(t)
        /\ MaxTokensOf(args[t].paramsJson) = 0
        /\ loc[t].toks # <<>>
        /\ retval[t] = RetOk /\ mem[t][1] = NUL

(***************************************************************************)
(* The helpers studied on their own: a call is drawn with its arguments,   *)
(* then made.  The configuration texts are those of the documentation of   *)
(* the parameter extractor and some malformed ones; the keys are the five  *)
(* the header of llm_infer names.                                          *)
(***************************************************************************)

\* {}
TextEmptyObject ==
    <<"{", "}">>

\* {"temperature":0.7,"top_k":10}
TextTempTopK ==
    <<"{", QUOTE, "t", "e", "m", "p", "e", "r", "a", "t", "u", "r", "e",
      QUOTE, ":", "0", ".", "7", ",", QUOTE, "t", "o", "p", "_", "k",
      QUOTE, ":", "1", "0", "}">>

\* {"foo_top_k":5}
TextFooTopK ==
    <<"{", QUOTE, "f", "o", "o", "_", "t", "o", "p", "_", "k", QUOTE, ":",
      "5", "}">>

\* {"max_tokens":"abc"}
TextMaxTokensAbc ==
    <<"{", QUOTE, "m", "a", "x", "_", "t", "o", "k", "e", "n", "s", QUOTE,
      ":", QUOTE, "a", "b", "c", QUOTE, "}">>

\* {"top_k"}
TextKeyNoColon ==
    <<"{", QUOTE, "t", "o", "p", "_", "k", QUOTE, "}">>

\* {"a":"top_k","b":7}
TextKeyInValue ==
    <<"{", QUOTE, "a", QUOTE, ":", QUOTE, "t", "o", "p", "_", "k", QUOTE,
      ",", QUOTE, "b", QUOTE, ":", "7", "}">>

\* {"top_k" : -3.5}
TextSpaced ==
    <<"{", QUOTE, "t", "o", "p", "_", "k", QUOTE, " ", ":", " ", "-", "3",
      ".", "5", "}">>

\* {"top_k":1,"repeat_penalty":4}
TextGreedyChain ==
    <<"{", QUOTE, "t", "o", "p", "_", "k", QUOTE, ":", "1", ",", QUOTE,
      "r", "e", "p", "e", "a", "t", "_", "p", "e", "n", "a", "l", "t", "y",
      QUOTE, ":", "4", "}">>

KeyTemperature == Ptr(
    <<"t", "e", "m", "p", "e", "r", "a", "t", "u", "r", "e">>)

KeyTopP == Ptr(
    <<"t", "o", "p", "_", "p">>)

KeyTopK == Ptr(
    <<"t", "o", "p", "_", "k">>)

KeyRepeatPenalty == Ptr(
    <<"r", "e", "p", "e", "a", "t", "_", "p", "e", "n", "a", "l", "t", "y">>)

ConfigTexts ==
    { NullPtr, Ptr(TextEmptyObject), Ptr(TextTempTopK), Ptr(TextFooTopK),
      Ptr(TextMaxTokensAbc), Ptr(TextKeyNoColon), Ptr(TextKeyInValue),
      Ptr(TextSpaced), Ptr(TextGreedyChain) }

ConfigKeys ==
    {NullPtr, KeyTemperature, KeyTopP, KeyTopK, KeyRepeatPenalty, KeyMaxTokens}

\* 0.4, 40 and 128: defaults of temperature, top_k and max_tokens
ConfigDefaults == {Dbl(4, 1), Dbl(40, 0), Dbl(128, 0)}

JgetdCalls ==
    { [NoCall EXCEPT !.fn = "jgetd", !.json = j, !.key = k, !.defv = d] :
          j \in ConfigTexts, k \in ConfigKeys, d \in ConfigDefaults }

\* the call jgetd(json, key, defv) is made
CallJgetd ==
    /\ fn_call.fn = "jgetd"
    /\ ~fn_result.done
    /\ fn_result' = [NoResult EXCEPT !.done = TRUE,
                        !.d = jgetd(fn_call.json, fn_call.key, fn_call.defv)]
    /\ UNCHANGED <<g_mutex, g_model, g_ctx, g_threads, models, sessions,
                   n_backend_init, crashed, pc, args, loc, retval, mem, did,
                   last_init, fn_call>>


\* scores as llama_get_logits may hand them over: any float, those below the
\* initial best_v of the pick (-3000 and -2000 stand for -3e30f and -2e30f)
\* included
WideScoreVals == {-3000, -2000, 0, 1}
WideScoreVectors == [1..vocab_size -> WideScoreVals]

\* the configuration texts a pick is made under
SamplingTexts == {NullPtr, Ptr(TextTempTopK), Ptr(TextGreedyChain)}

\* the tokens the session has seen before the pick
EmittedSets == {{}, {0}}

SelectCalls ==
    { [NoCall EXCEPT !.fn = "select", !.json = j, !.logits = l,
                     !.emitted = e] :
          j \in SamplingTexts, l \in WideScoreVectors, e \in EmittedSets }

\* one pick of llm_infer's loop body: the scores are fn_call.logits, the
\* call's paramsJson is fn_call.json, the session has seen fn_call.emitted
CallSelect ==
    /\ fn_call.fn = "select"
    /\ ~fn_result.done
    /\ fn_result' = [NoResult EXCEPT !.done = TRUE,
                        !.tok = GreedyPick(fn_call.logits, vocab_size)]
    /\ UNCHANGED <<g_mutex, g_model, g_ctx, g_threads, models, sessions,
                   n_backend_init, crashed, pc, args, loc, retval, mem, did,
                   last_init, fn_call>>

HelperInit ==
    /\ fn_call \in JgetdCalls \cup SelectCalls
    /\ fn_result = NoResult
    /\ g_mutex = 0
    /\ g_model = 0
    /\ g_ctx = 0
    /\ g_threads = DefaultThreads
    /\ models = {}
    /\ sessions = << >>
    /\ n_backend_init = 0
    /\ crashed = FALSE
    /\ pc = [t \in Threads |-> "idle"]
    /\ args = [t \in Threads |-> NoArgs]
    /\ loc = [t \in Threads |-> NoLocals]
    /\ retval = [t \in Threads |-> 0]
    /\ mem = [t \in Threads |-> Untouched]
    /\ did = [t \in Threads |-> {}]
    /\ last_init = NoInitYet

HelperNext == CallJgetd \/ CallSelect

HelperSpec == HelperInit /\ [][HelperNext]_vars

\* the values of two doubles are equal
DblEq(x, y) == x.m * Pow10(y.d) = y.m * Pow10(x.d)

JgetdDone == fn_call.fn = "jgetd" /\ fn_result.done
SelectDone == fn_call.fn = "select" /\ fn_result.done

\* the quoted key of the call under study, and where the text holds it
QuotedKey == <<QUOTE>> \o fn_call.key.s \o <<QUOTE>>
KeyAt == strstr(fn_call.json.s, QuotedKey)
ColonAt == strchr(fn_call.json.s, KeyAt, ":")

\* a numeric literal starts at s[from]: optional white space, an optional
\* sign, then a digit, or a point and a digit
NumberStartsAt(s, from) ==
    LET p0 == SkipSpace(s, from)
        p1 == IF p0 <= Len(s) /\ s[p0] \in {"+", "-"} THEN p0 + 1 ELSE p0
    IN  \/ p1 <= Len(s) /\ IsDigit(s[p1])
        \/ p1 + 1 <= Len(s) /\ s[p1] = "." /\ IsDigit(s[p1 + 1])

\* the four cases in which the extractor is to fall back on the default
TextIsNull == fn_call.json.null
KeyMissing == ~fn_call.json.null /\ ~fn_call.key.null /\ KeyAt = 0
ColonMissing ==
    ~fn_call.json.null /\ ~fn_call.key.null /\ KeyAt # 0 /\ ColonAt = 0
NumberMissing ==
    /\ ~fn_call.json.null /\ ~fn_call.key.null /\ KeyAt # 0 /\ ColonAt # 0
    /\ ~NumberStartsAt(fn_call.json.s, ColonAt + 1)

\* C11, as stated: jgetd returns the default when the text is null, when
\* the quoted key does not occur in it, when no colon follows the key, and
\* when no numeric literal follows that colon.  The last case fails: atof
\* yields 0.0 there, and jgetd returns it.
C11_AsStated ==
    (JgetdDone /\ (TextIsNull \/ KeyMissing \/ ColonMissing \/ NumberMissing))
        => fn_result.d = fn_call.defv

\* C11, the three cases the code does handle: null text, key absent, no
\* colon after the key
C11_DefaultOnAbsence ==
    (JgetdDone /\ (TextIsNull \/ KeyMissing \/ ColonMissing))
        => fn_result.d = fn_call.defv

\* the failing case is reached: no number after the colon, a default other
\* than 0, and 0.0 returned
C11_Witness ==
    /\ JgetdDone
    /\ NumberMissing
    /\ DblEq(fn_result.d, Dbl(0, 0))
    /\ ~DblEq(fn_call.defv, Dbl(0, 0))

\* where the text holds the key name itself, quotes or not, and the first
\* colon from there
BareKeyAt == strstr(fn_call.json.s, fn_call.key.s)
BareColonAt == strchr(fn_call.json.s, BareKeyAt, ":")

\* C12, as stated: jgetd matches the first occurrence of the key name
\* anywhere in the text, the tail of a longer key included, and returns the
\* number after the colon that follows it.  It does not: the pattern starts
\* with a quote, which "foo_top_k" does not have before "top_k".
C12_AsStated ==
    (/\ JgetdDone /\ ~fn_call.json.null /\ ~fn_call.key.null
     /\ BareKeyAt # 0 /\ BareColonAt # 0)
        => DblEq(fn_result.d, atof(fn_call.json.s, BareColonAt + 1))

\* C12, amended: jgetd matches the first occurrence of the key name enclosed
\* in double quotes, wherever it is in the text, and returns the number
\* after the first colon from there; without such an occurrence it returns
\* the default, whether or not the bare name occurs.
C12_QuotedKeyMatch ==
    (JgetdDone /\ ~fn_call.json.null /\ ~fn_call.key.null)
        => /\ KeyAt = 0 => fn_result.d = fn_call.defv
           /\ (KeyAt # 0 /\ ColonAt # 0)
                 => fn_result.d = atof(fn_call.json.s, ColonAt + 1)

\* the call extract('{"foo_top_k":5}', "top_k", 40) has returned 40
C12_Witness ==
    /\ JgetdDone
    /\ fn_call.json = Ptr(TextFooTopK)
    /\ fn_call.key = KeyTopK
    /\ fn_call.defv = Dbl(40, 0)
    /\ BareKeyAt # 0
    /\ fn_result.d = Dbl(40, 0)

\* C13: llm_dispose, in whatever state it is called, leaves no Engine: on
\* its return g_ctx and g_model are null and no session or model is live.
\* The session is released before the model, a handle is passed to
\* llama_free or llama_model_free only while it is live, and llm_infer with
\* no Engine installed returns -10.
C13_DisposeClears ==
    /\ g_ctx # 0 => g_ctx \in DOMAIN sessions
    /\ g_model # 0 => g_model \in models
    /\ \A t \in Threads :
          /\ (Inside(t, "dispose") /\ pc[t] \in {"dispose_model", "ret"})
                => (g_ctx = 0 /\ DOMAIN sessions = {})
          /\ (Inside(t, "dispose") /\ "free_model" \in did[t])
                => (g_ctx = 0 /\ DOMAIN sessions = {})
          /\ AtReturn(t, "dispose")
                => /\ ~EnginePresent
                   /\ g_model = 0
                   /\ models = {}
                   /\ "backend_free" \in did[t]
                   /\ retval[t] = 0
          /\ (AtReturn(t, "infer") /\ ~EnginePresent)
                => retval[t] = RetNotInitialized

\* llm_dispose returns having released a session and a model, after an
\* earlier llm_init succeeded
C13_Witness ==
    \E t \in Threads :
        /\ AtReturn(t, "dispose")
        /\ {"free_ctx", "free_model"} \subseteq did[t]
        /\ last_init = RetOk
        /\ ~EnginePresent

\* llm_dispose returns with nothing to release: no Engine was installed
C13_WitnessAbsent ==
    \E t \in Threads :
        /\ AtReturn(t, "dispose")
        /\ did[t] = {"backend_free"}
        /\ last_init # RetOk

\* the Engine a freshly started process holds after a successful
\* llm_init(modelPath, n_ctx, n_threads): one model, one session with no
\* token and no scores, the globals naming them
FreshEngine(n_ctx, n_threads) ==
    /\ g_model # 0
    /\ models = {g_model}
    /\ g_ctx # 0
    /\ DOMAIN sessions = {g_ctx}
    /\ sessions[g_ctx] =
          [n_ctx    |-> IF n_ctx > 0 THEN n_ctx ELSE DefaultNCtx,
           n_tokens |-> 0,
           logits   |-> <<>>]
    /\ g_threads = IF n_threads > 0 THEN n_threads ELSE DefaultThreads

\* C14: an llm_init whose load and session creation succeed returns 0 and
\* leaves exactly the Engine a fresh process would hold, whatever calls came
\* before it, an earlier Engine and its llm_dispose included: the session
\* has an empty token history and nothing of the earlier Engine is live.
C14_ReinitFresh ==
    \A t \in Threads :
        (AtReturn(t, "init") /\ "new_ctx" \in did[t] /\ EnginePresent)
            => /\ retval[t] = RetOk
               /\ FreshEngine(args[t].n_ctx, args[t].n_threads)

\* a successful llm_init returns after an earlier Engine was installed and
\* disposed of
C14_Witness ==
    \E t \in Threads :
        /\ AtReturn(t, "init")
        /\ "new_ctx" \in did[t]
        /\ retval[t] = RetOk
        /\ last_init = RetOk
        /\ n_backend_init >= 2

\* what the configuration text of the pick under study sets top_k and
\* repeat_penalty to (defaults 40 and 1.1)
CfgTopK == jgeti(fn_call.json, KeyTopK, 40)
CfgRepeatPenalty == jgetd(fn_call.json, KeyRepeatPenalty, Dbl(11, 1))

\* the score of token i after the repetition penalty pen, a whole number,
\* times pen: a token the session has seen has a positive score divided by
\* pen and any other score multiplied by it
PenalizedScore(i, pen) ==
    LET v == fn_call.logits[i + 1]
    IN  IF i \in fn_call.emitted
        THEN (IF v > 0 THEN v ELSE v * pen * pen)
        ELSE v * pen

\* the tokens left after the repetition penalty and a top-k of 1: those of
\* the highest penalized score; top-p and temperature leave them as they are
ChainSupportTopOne(pen) ==
    { i \in 0..(vocab_size - 1) :
          \A j \in 0..(vocab_size - 1) :
              PenalizedScore(i, pen) >= PenalizedScore(j, pen) }

\* C15, as stated: the pick is drawn from the scores narrowed by the
\* repetition penalty, then top-k, then top-p, then temperature, as
\* paramsJson sets them; so under top_k = 1 it is a token of the highest
\* penalized score.  It is not: llm_infer reads max_tokens only and picks
\* the highest raw score.
C15_AsStated ==
    (/\ SelectDone
     /\ CfgTopK = 1
     /\ CfgRepeatPenalty.d = 0
     /\ CfgRepeatPenalty.m >= 1)
        => fn_result.tok \in ChainSupportTopOne(CfgRepeatPenalty.m)

\* a pick under {"top_k":1,"repeat_penalty":4} whose token the chain would
\* have excluded
C15_Witness ==
    /\ SelectDone
    /\ fn_call.json = Ptr(TextGreedyChain)
    /\ fn_call.emitted = {0}
    /\ fn_call.logits = <<1, 1, 0>>
    /\ fn_result.tok = 0
    /\ ChainSupportTopOne(4) = {1}

\* the number of token fragments a text is made of
RECURSIVE FragmentCount(_)
FragmentCount(s) ==
    IF s = <<>> THEN 0
    ELSE LET heads == { k \in 1..Len(PieceTable) :
                           /\ PieceTable[k] # <<>>
                           /\ Len(PieceTable[k]) <= Len(s)
                           /\ SubSeq(s, 1, Len(PieceTable[k])) = PieceTable[k] }
             k     == CHOOSE h \in heads : TRUE
         IN  1 + FragmentCount(SubSeq(s, Len(PieceTable[k]) + 1, Len(s)))

\* thread t has left the generation loop and is about to copy the output
LoopEnded(t) == Inside(t, "infer") /\ pc[t] = "infer_write"

\* the conditions the loop of thread t may have ended on
EndedOnBudget(t) == loc[t].i >= loc[t].max_tokens
EndedOnEos(t) ==
    /\ "logits" \in did[t]
    /\ loc[t].tok \in {eos_token, -1}
    /\ FragmentCount(loc[t].result) = loc[t].i
EndedOnCapacity(t) ==
    /\ Len(loc[t].result) >= args[t].outBufSize - 1
    /\ "step_decode_failed" \notin did[t]
EndedOnStepFailure(t) == "step_decode_failed" \in did[t]

\* C16, as stated: the loop ends on the token budget, on the end-of-sequence
\* token or on a full output, and on nothing else.  It also ends when the
\* step decode fails before any of the three holds.
C16_AsStated ==
    \A t \in Threads :
        LoopEnded(t)
            => (EndedOnBudget(t) \/ EndedOnEos(t) \/ EndedOnCapacity(t))

\* C16, amended: the loop runs at most max_tokens iterations and ends on the
\* first of four conditions: the budget is used up, the token picked is the
\* end-of-sequence or invalid token (its fragment is not appended), the
\* output has reached outBufSize - 1 bytes (no further token is decoded), or
\* the step decode fails.  In each case llm_infer returns 0, and it has
\* appended at most max_tokens fragments.
C16_FourExits ==
    \A t \in Threads :
        /\ LoopEnded(t)
              => (\/ EndedOnBudget(t) \/ EndedOnEos(t)
                  \/ EndedOnCapacity(t) \/ EndedOnStepFailure(t))
        /\ (Inside(t, "infer") /\ pc[t] = "infer_step")
              => /\ loc[t].i < loc[t].max_tokens
                 /\ Len(loc[t].result) < args[t].outBufSize - 1
                 /\ loc[t].tok \notin {eos_token, -1}
        /\ (Inside(t, "infer") /\ pc[t] \in {"infer_loop", "infer_write"})
              => loc[t].i <= loc[t].max_tokens
        /\ (Inside(t, "infer") /\ pc[t] = "infer_loop")
              => FragmentCount(loc[t].result) = loc[t].i
        /\ Inside(t, "infer")
              => FragmentCount(loc[t].result) <= loc[t].max_tokens
        /\ (AtReturn(t, "infer") /\ "write" \in did[t]) => retval[t] = RetOk

\* the loop has ended on a failed step decode with budget and room left and
\* no end-of-sequence token
C16_Witness ==
    \E t \in Threads :
        /\ LoopEnded(t)
        /\ EndedOnStepFailure(t)
        /\ ~EndedOnBudget(t)
        /\ ~EndedOnEos(t)
        /\ Len(loc[t].result) < args[t].outBufSize - 1

\* the loop has ended on the budget, on the end-of-sequence token, on a full
\* output
C16_WitnessBudget ==
    \E t \in Threads :
        LoopEnded(t) /\ EndedOnBudget(t) /\ loc[t].i > 0
C16_WitnessEos ==
    \E t \in Threads :
        LoopEnded(t) /\ EndedOnEos(t) /\ ~EndedOnBudget(t)
C16_WitnessCapacity ==
    \E t \in Threads :
        LoopEnded(t) /\ EndedOnCapacity(t) /\ ~EndedOnBudget(t)

\* the lowest index of the highest score of a vector, counted from 0
LowestArgMax(logits) ==
    CHOOSE i \in 0..(Len(logits) - 1) :
        /\ \A j \in 0..(Len(logits) - 1) : logits[i + 1] >= logits[j + 1]
        /\ \A j \in 0..(i - 1) : logits[j + 1] < logits[i + 1]

\* C17, as stated: for every score vector the token picked is the index of
\* the highest score, the lowest such index on a tie.  It is not when no
\* score exceeds the initial best_v of -1e30f: the pick is then token 0,
\* wherever the highest score is.
C17_AsStated ==
    SelectDone => fn_result.tok = LowestArgMax(fn_call.logits)

\* C17, for the vectors with a score above the initial best_v: the pick is
\* the lowest index of the highest score
C17_AboveInitialBest ==
    (SelectDone /\ \E k \in 1..vocab_size : fn_call.logits[k] > InitBestV)
        => fn_result.tok = LowestArgMax(fn_call.logits)

\* a pick of token 0 from scores whose highest is at index 1
C17_Witness ==
    /\ SelectDone
    /\ fn_call.logits = <<-3000, -2000, -3000>>
    /\ fn_result.tok = 0
    /\ LowestArgMax(fn_call.logits) = 1

\* C18, as stated: llama_backend_init is called at most once in the life of
\* the process, whatever calls are made.  It is called by every llm_init
\* that finds no Engine and a valid path, a retry after a failure included.
C18_AsStated == n_backend_init <= 1

\* an llm_init that follows a failed model load has called
\* llama_backend_init for the second time
C18_Witness ==
    \E t \in Threads :
        /\ Inside(t, "init")
        /\ "backend_init" \in did[t]
        /\ last_init = RetModelLoadFailed
        /\ n_backend_init = 2

\* C19, as stated: in a call of llm_infer the scores are read only after a
\* decode of that call has succeeded, an empty token sequence with
\* max_tokens > 0 included.  With no token the prompt decode is skipped and
\* the first iteration reads the scores all the same.
C19_AsStated ==
    \A t \in Threads :
        (Inside(t, "infer") /\ "logits" \in did[t])
            => ("decode" \in did[t] /\ loc[t].toks # <<>>)

\* the scores have been read in a call that has decoded nothing: no prompt
\* token, max_tokens > 0, n_past still 0
C19_Witness ==
    \E t \in Threads :
        /\ Inside(t, "infer")
        /\ "logits" \in did[t]
        /\ "decode" \notin did[t]
        /\ loc[t].toks = <<>>
        /\ loc[t].max_tokens > 0
        /\ loc[t].n_past = 0

\* C20, as stated: at every point of a call of llm_infer on an Engine,
\* n_past is the number of tokens the session holds, each call starting
\* from an empty session.  The session is never cleared: a second call
\* starts with n_past = 0 on a session that still holds the tokens of the
\* first.
C20_AsStated ==
    \A t \in Threads :
        (/\ Inside(t, "infer")
         /\ pc[t] \in {"infer_prompt", "infer_loop", "infer_step", "infer_write"}
         /\ g_ctx \in DOMAIN sessions)
            => loc[t].n_past = sessions[g_ctx].n_tokens

\* C20, within one call: n_past counts the tokens this call has decoded,
\* and the session holds at least as many
C20_CountsOwnTokens ==
    \A t \in Threads :
        (/\ Inside(t, "infer")
         /\ pc[t] \in {"infer_prompt", "infer_loop", "infer_step", "infer_write"}
         /\ g_ctx \in DOMAIN sessions)
            => /\ loc[t].n_past <= sessions[g_ctx].n_tokens
               /\ loc[t].n_past \in {0, Len(loc[t].toks) + loc[t].i}

\* a call of llm_infer is about to decode its prompt, n_past = 0, on a
\* session that holds the tokens of an earlier call
C20_Witness ==
    \E t \in Threads :
        /\ Inside(t, "infer")
        /\ pc[t] = "infer_prompt"
        /\ loc[t].n_past = 0
        /\ g_ctx \in DOMAIN sessions
        /\ sessions[g_ctx].n_tokens > 0
=============================================================================
